---- MODULE Spec2Model ----
(***************************************************************************)
(* Error-curve aggregation of alexandra-frca/BAE: src/utils/binning.py.    *)
(*                                                                         *)
(* Numbers.  The program computes on IEEE doubles.  The model computes     *)
(* exactly on rationals <<n, d>> and on the extended values of IEEE        *)
(* arithmetic (finite, +inf, -inf, nan).  Logarithms are exact because the *)
(* coordinates are drawn from powers of two; np.log is modelled in units   *)
(* of ln 2 (the factor cancels in every quotient, mean, median and         *)
(* comparison the program makes).  A power c * b^p that is not rational is *)
(* kept as the triple it is built from.  The one place where the rounding  *)
(* of doubles decides the result, a sample lying exactly on a bin edge     *)
(* computed as e^(log(.)), is modelled by a rounding direction per edge.   *)
(***************************************************************************)
EXTENDS Integers, Sequences, FiniteSets, TLC

\* ------------------------------------------------------------------ bounds
MaxLen == 3
MaxBins == 2

\* ------------------------------------------------------------- rationals
Abs(n) == IF n < 0 THEN -n ELSE n

RECURSIVE Gcd(_, _)
Gcd(a, b) == IF b = 0 THEN a ELSE Gcd(b, a % b)

RECURSIVE IPow(_, _)
IPow(b, e) == IF e = 0 THEN 1 ELSE b * IPow(b, e - 1)

Rat(n, d) ==
    LET g == Gcd(Abs(n), Abs(d))
        s == IF d < 0 THEN -1 ELSE 1
    IN  <<(s * n) \div g, (s * d) \div g>>

RInt(n) == <<n, 1>>
RAdd(a, b) == Rat(a[1] * b[2] + b[1] * a[2], a[2] * b[2])
RSub(a, b) == Rat(a[1] * b[2] - b[1] * a[2], a[2] * b[2])
RMul(a, b) == Rat(a[1] * b[1], a[2] * b[2])
RDiv(a, b) == Rat(a[1] * b[2], a[2] * b[1])
RLess(a, b) == a[1] * b[2] < b[1] * a[2]
RSign(a) == IF a[1] > 0 THEN 1 ELSE IF a[1] < 0 THEN -1 ELSE 0

\* ------------------------------------------------- IEEE extended values
Fin(r) == [k |-> "fin", v |-> r]
PInf == [k |-> "pinf", v |-> <<0, 1>>]
NInf == [k |-> "ninf", v |-> <<0, 1>>]
NaN == [k |-> "nan", v |-> <<0, 1>>]

IsFinite(a) == a.k = "fin"
ESign(a) ==
    CASE a.k = "pinf" -> 1
      [] a.k = "ninf" -> -1
      [] a.k = "fin" -> RSign(a.v)
      [] OTHER -> 0

ENeg(a) ==
    CASE a.k = "pinf" -> NInf
      [] a.k = "ninf" -> PInf
      [] a.k = "fin" -> Fin(RSub(RInt(0), a.v))
      [] OTHER -> NaN

EAdd(a, b) ==
    CASE a.k = "nan" \/ b.k = "nan" -> NaN
      [] a.k = "fin" /\ b.k = "fin" -> Fin(RAdd(a.v, b.v))
      [] a.k = "fin" -> b
      [] b.k = "fin" -> a
      [] a.k = b.k -> a
      [] OTHER -> NaN

ESub(a, b) == EAdd(a, ENeg(b))

\* a / b; a zero divisor is +0.0 (the difference of two equal doubles).
EDiv(a, b) ==
    CASE a.k = "nan" \/ b.k = "nan" -> NaN
      [] a.k = "fin" /\ b.k = "fin" ->
            IF b.v[1] # 0 THEN Fin(RDiv(a.v, b.v))
            ELSE IF a.v[1] = 0 THEN NaN
            ELSE IF a.v[1] > 0 THEN PInf ELSE NInf
      [] a.k = "fin" -> Fin(RInt(0))
      [] b.k = "fin" ->
            IF (ESign(a) > 0) = (ESign(b) >= 0) THEN PInf ELSE NInf
      [] OTHER -> NaN

ELess(a, b) ==
    CASE a.k = "nan" \/ b.k = "nan" -> FALSE
      [] a.k = "fin" /\ b.k = "fin" -> RLess(a.v, b.v)
      [] OTHER -> (a.k = "ninf" /\ b.k # "ninf") \/ (b.k = "pinf" /\ a.k # "pinf")

RECURSIVE Log2(_)
Log2(v) == IF v <= 1 THEN 0 ELSE 1 + Log2(v \div 2)

\* np.log of an integer that is 0 or a power of two, in units of ln 2:
\* log(0) = -inf, log(2^e) = e, log of a negative number is nan.
NpLog(v) ==
    IF v = 0 THEN NInf
    ELSE IF v < 0 THEN NaN
    ELSE Fin(RInt(Log2(v)))

\* --------------------------------------------------------- bin_by_values
\* Sign of x - e_j, where e_j is the exact j-th of k edges (j = 0..k-1)
\* spaced evenly between lo and hi on the given scale.  On the log scale
\* e_j = lo * (hi/lo)^(j/(k-1)), compared through integer powers.
EdgeCmp(x, j, lo, hi, k, scale) ==
    LET n == k - 1
        l == IF scale = "log"
             THEN (IF n = 0 THEN x ELSE IPow(x, n) * IPow(lo, j))
             ELSE (IF n = 0 THEN x ELSE x * n)
        r == IF scale = "log"
             THEN (IF n = 0 THEN lo ELSE IPow(hi, j) * IPow(lo, n))
             ELSE (IF n = 0 THEN lo ELSE lo * n + j * (hi - lo))
    IN  IF l < r THEN -1 ELSE IF l > r THEN 1 ELSE 0

\* The doubles np.logspace / np.linspace return differ from the exact edges
\* by rounding: rnd[j] is the direction (-1 below, 0 exact, 1 above) of edge
\* j.  pow(e, 0.0) is exactly 1; np.linspace returns its endpoints exactly;
\* equal exact edges are the same double.
Roundings(lo, hi, k, scale) ==
    {rnd \in [0..(k - 1) -> {-1, 0, 1}] :
        /\ scale = "log" =>
              \A j \in 0..(k - 1) :
                  (\/ (j = 0 /\ lo = 1)
                   \/ (j = k - 1 /\ hi = 1)
                   \/ (lo = 1 /\ hi = 1)) => rnd[j] = 0
        /\ scale = "linear" =>
              \A j \in 0..(k - 1) : (j = 0 \/ j = k - 1 \/ lo = hi) => rnd[j] = 0
        /\ lo = hi => \A i, j \in 0..(k - 1) : rnd[i] = rnd[j]}

\* Sign of x - bins[j] for the rounded edge.
BinCmp(x, j, lo, hi, k, scale, rnd) ==
    LET c == EdgeCmp(x, j, lo, hi, k, scale)
    IN  IF c # 0 THEN c ELSE -rnd[j]

\* pandas.cut(x, bins, include_lowest=True): the 1-based number of the
\* interval (bins[b-1], bins[b]] holding x, 0 for a value in no interval.
CutId(x, lo, hi, k, scale, rnd) ==
    LET below == Cardinality({j \in 0..(k - 1) : BinCmp(x, j, lo, hi, k, scale, rnd) > 0})
        ids == IF BinCmp(x, 0, lo, hi, k, scale, rnd) = 0 THEN 1 ELSE below
    IN  IF ids = 0 \/ ids = k THEN 0 ELSE ids

\* What np.logspace/np.linspace and pandas.cut raise on the edges:
\* no edge at all (bins[0] of an empty array), a nan edge from the log of a
\* non-positive bound, or more than two edges that are equal.
BinError(lo, hi, k, scale) ==
    IF k = 0 THEN "IndexError"
    ELSE IF scale = "log" /\ (lo <= 0 \/ hi <= 0) THEN "ValueError"
    ELSE IF lo = hi /\ k > 2 THEN "ValueError"
    ELSE "none"

\* bin_by_values(df, xrange, nbins, scale): nbins is the number of EDGES.
\* Returns the bin number of every sample (df["bin"], 0 = NaN), the
\* mapping bin -> indices over the bins that hold a sample (.groups) and
\* the edges (bins): edge j is the double next to the exact j-th edge in the
\* direction bins[j].  Sample indices are 1-based here, 0-based in the
\* program.
bin_by_values(xs, xrange, nbins, scale, rnd) ==
    LET lo == xrange[1]
        hi == xrange[2]
        err == BinError(lo, hi, nbins, scale)
        bin == [i \in 1..Len(xs) |->
                   IF err # "none" THEN 0
                   ELSE CutId(xs[i], lo, hi, nbins, scale, rnd)]
        keys == {bin[i] : i \in 1..Len(xs)} \ {0}
    IN  [error |-> err,
         bin |-> bin,
         binned_indices |-> [b \in keys |-> {i \in 1..Len(xs) : bin[i] = b}],
         nedges |-> nbins,
         bins |-> IF err # "none" THEN <<>> ELSE rnd]

\* ------------------------------------------------------ column reducers
RECURSIVE SortedSeq(_)
SortedSeq(S) ==
    IF S = {} THEN <<>>
    ELSE LET m == CHOOSE a \in S : \A b \in S : a <= b
         IN  <<m>> \o SortedSeq(S \ {m})

IsNotNaN(e) == e.k # "nan"
NotNaN(s) == SelectSeq(s, IsNotNaN)

RECURSIVE ESum(_)
ESum(s) == IF Len(s) = 0 THEN Fin(RInt(0)) ELSE EAdd(Head(s), ESum(Tail(s)))

\* k-th smallest (k = 1..Len(t)) of a nan-free sequence.
Kth(t, k) ==
    t[CHOOSE i \in 1..Len(t) :
        /\ Cardinality({j \in 1..Len(t) : ELess(t[j], t[i])}) < k
        /\ k <= Cardinality({j \in 1..Len(t) : ~ELess(t[i], t[j])})]

\* DataFrameGroupBy.mean(): the mean of the non-nan values, nan if none.
Mean(s) ==
    LET t == NotNaN(s)
    IN  IF Len(t) = 0 THEN NaN ELSE EDiv(ESum(t), Fin(RInt(Len(t))))

\* DataFrameGroupBy.median(): the median of the non-nan values, nan if none.
Median(s) ==
    LET t == NotNaN(s)
        n == Len(t)
    IN  IF n = 0 THEN NaN
        ELSE IF n % 2 = 1 THEN Kth(t, (n + 1) \div 2)
        ELSE EDiv(EAdd(Kth(t, n \div 2), Kth(t, n \div 2 + 1)), Fin(RInt(2)))

\* ------------------------------------------------------ output numbers
\* An x of the output: the rational v ("lin") or 2^v ("exp", the result of
\* np.exp / np.logspace applied to a logarithm v).
XLin(r) == [k |-> "lin", v |-> r]
XExp(r) == [k |-> "exp", v |-> r]
XOne == XLin(RInt(1))

\* A y of the output: (c * base^p)^r, or the value of the fitted spline at
\* base ("spline").
YPow(c, base, p, r) == [k |-> "pow", c |-> c, base |-> base, p |-> p, r |-> r]
YNum(c) == YPow(c, XOne, Fin(RInt(0)), RInt(1))
YSpline(at) == [k |-> "spline", c |-> RInt(0), base |-> at, p |-> Fin(RInt(0)), r |-> RInt(1)]

\* y ** q
YRaise(y, q) == [y EXCEPT !.r = RMul(y.r, q)]

Half == <<1, 2>>

\* Sign of x - 1 for an output x.
XCmpOne(x) ==
    IF x.k = "exp" THEN RSign(x.v) ELSE RSign(RSub(x.v, RInt(1)))

\* IEEE class of base^p: "zero", "pos" (finite, positive), "inf" or "nan".
PowClass(base, p) ==
    LET b == XCmpOne(base)
        zero == base.k = "lin" /\ base.v[1] = 0
    IN  CASE b = 0 -> "pos"
          [] p.k = "nan" -> "nan"
          [] p.k = "pinf" -> IF b > 0 THEN "inf" ELSE "zero"
          [] p.k = "ninf" -> IF b > 0 THEN "zero" ELSE "inf"
          [] zero -> IF RSign(p.v) > 0 THEN "zero"
                     ELSE IF RSign(p.v) = 0 THEN "pos" ELSE "inf"
          [] OTHER -> "pos"

\* IEEE class of the output y = (c * base^p)^r, r > 0, c >= 0.
YClass(y) ==
    LET cls == PowClass(y.base, y.p)
    IN  CASE y.k = "spline" -> "pos"
          [] cls = "nan" -> "nan"
          [] y.c[1] = 0 -> IF cls = "inf" THEN "nan" ELSE "zero"
          [] OTHER -> cls

\* ------------------------------------------------------- bin_and_average
strats == {"y_mean", "y_median", "slope_mean", "slope_median", "fit", "spline"}

\* None is the empty tuple; a fixed point is <<x0, y0>>.
None == <<>>
IsNone(v) == Len(v) = 0

\* calculate_slope under @logscale: both points go through np.log first.
calculate_slope(reference, point) ==
    LET x0 == NpLog(reference[1])
        y0 == NpLog(reference[2])
        x == NpLog(point[1])
        y == NpLog(point[2])
    IN  EDiv(ESub(y0, y), ESub(x0, x))

eval_power_function(x, power, fixed_point) ==
    LET x0 == fixed_point[1]
        y0 == fixed_point[2]
        const == x0 * y0
    IN  YPow(RInt(const), x, power, RInt(1))

group_points(xs, ys, binned_indices) ==
    LET keys == SortedSeq(DOMAIN binned_indices)
    IN  [g \in 1..Len(keys) |->
            LET idx_list == SortedSeq(binned_indices[keys[g]])
            IN  [m \in 1..Len(idx_list) |-> <<xs[idx_list[m]], ys[idx_list[m]]>>]]

SeqMin(s) == CHOOSE a \in {s[i] : i \in 1..Len(s)} : \A i \in 1..Len(s) : a <= s[i]
SeqMax(s) == CHOOSE a \in {s[i] : i \in 1..Len(s)} : \A i \in 1..Len(s) : a >= s[i]

\* xrange = min(xs), max(xs); no sample, no range (the call raises first).
BinRange(xs) == IF Len(xs) = 0 THEN <<1, 1>> ELSE <<SeqMin(xs), SeqMax(xs)>>

\* np.logspace(lo, hi, nbins): the range is not shrunk.
EvalPointsOnEdges(lo, hi, nbins) ==
    IF nbins = 0 THEN <<>>
    ELSE [i \in 1..nbins |->
             IF nbins = 1 THEN XExp(lo)
             ELSE XExp(RAdd(lo, RMul(RInt(i - 1),
                                     RDiv(RSub(hi, lo), RInt(nbins - 1)))))]

\* The nbins points np.logspace(lo + w/2, hi - w/2, nbins) of the fit and
\* spline strategies, as exponents; lo, hi are the logs of the x-range and
\* w = (hi - lo)/nbins.
EvalPoints(lo, hi, nbins) ==
    IF nbins = 0 THEN <<>>
    ELSE LET binwidth == RDiv(RSub(hi, lo), RInt(nbins))
             start == RAdd(lo, RMul(binwidth, Half))
             stop == RSub(hi, RMul(binwidth, Half))
         IN  [i \in 1..nbins |->
                IF nbins = 1 THEN XExp(start)
                ELSE XExp(RAdd(start, RMul(RInt(i - 1),
                                           RDiv(RSub(stop, start), RInt(nbins - 1)))))]

\* Lines 114-115: the interior knots handed to LSQUnivariateSpline,
\* np.logspace(lo, hi, nbins)[1:-1], as exponents.
SplineKnots(lo, hi, nbins) ==
    IF nbins <= 2 THEN <<>>
    ELSE [j \in 1..(nbins - 2) |->
             XExp(RAdd(lo, RMul(RInt(j), RDiv(RSub(hi, lo), RInt(nbins - 1)))))]

\* scipy's LSQUnivariateSpline of order 3 needs more than 3 points, given
\* in increasing order.
SplineOrder == 3
SplineInputOk(xs) ==
    /\ Len(xs) > SplineOrder
    /\ \A i \in 1..(Len(xs) - 1) : xs[i] <= xs[i + 1]

Reduce(strategy, col) ==
    IF strategy \in {"y_mean", "slope_mean"} THEN Mean(col) ELSE Median(col)

\* groupby(sort=False): the rows in the order their bins first appear.
GroupRowsUnsorted(xs, ys, slopes, bin, strategy, logdomain) ==
    LET First(b) == CHOOSE i \in 1..Len(xs) : bin[i] = b /\ \A j \in 1..(i - 1) : bin[j] # b
        firsts == SortedSeq({First(b) : b \in {bin[i] : i \in 1..Len(xs)} \ {0}})
        keys == [g \in 1..Len(firsts) |-> bin[firsts[g]]]
        colx == [i \in 1..Len(xs) |-> IF logdomain THEN NpLog(xs[i]) ELSE Fin(RInt(xs[i]))]
        coly == [i \in 1..Len(xs) |-> IF logdomain THEN NpLog(ys[i]) ELSE Fin(RInt(ys[i]))]
        Members(b) == SortedSeq({i \in 1..Len(xs) : bin[i] = b})
        Col(c, b) == [m \in 1..Len(Members(b)) |-> c[Members(b)[m]]]
        rows == [g \in 1..Len(keys) |->
                    [bin |-> keys[g],
                     x |-> Reduce(strategy, Col(colx, keys[g])),
                     y |-> Reduce(strategy, Col(coly, keys[g])),
                     slope |-> IF Len(slopes) = 0 THEN Fin(RInt(0))
                               ELSE Reduce(strategy, Col(slopes, keys[g]))]]
        HasNoNaN(r) == IsNotNaN(r.x) /\ IsNotNaN(r.y) /\ IsNotNaN(r.slope)
    IN  SelectSeq(rows, HasNoNaN)

\* No dropna(): the rows with a nan are kept.
GroupRowsKeepNaN(xs, ys, slopes, bin, strategy, logdomain) ==
    LET keys == SortedSeq({bin[i] : i \in 1..Len(xs)} \ {0})
        colx == [i \in 1..Len(xs) |-> IF logdomain THEN NpLog(xs[i]) ELSE Fin(RInt(xs[i]))]
        coly == [i \in 1..Len(xs) |-> IF logdomain THEN NpLog(ys[i]) ELSE Fin(RInt(ys[i]))]
        Members(b) == SortedSeq({i \in 1..Len(xs) : bin[i] = b})
        Col(c, b) == [m \in 1..Len(Members(b)) |-> c[Members(b)[m]]]
        rows == [g \in 1..Len(keys) |->
                    [bin |-> keys[g],
                     x |-> Reduce(strategy, Col(colx, keys[g])),
                     y |-> Reduce(strategy, Col(coly, keys[g])),
                     slope |-> IF Len(slopes) = 0 THEN Fin(RInt(0))
                               ELSE Reduce(strategy, Col(slopes, keys[g]))]]
        HasNoNaN(r) == IsNotNaN(r.x) /\ IsNotNaN(r.y) /\ IsNotNaN(r.slope)
    IN  rows

\* df.groupby("bin").mean()/.median().dropna(): one row per bin that holds
\* a sample, in bin order, without the rows that have a nan.
GroupRows(xs, ys, slopes, bin, strategy, logdomain) ==
    LET keys == SortedSeq({bin[i] : i \in 1..Len(xs)} \ {0})
        colx == [i \in 1..Len(xs) |-> IF logdomain THEN NpLog(xs[i]) ELSE Fin(RInt(xs[i]))]
        coly == [i \in 1..Len(xs) |-> IF logdomain THEN NpLog(ys[i]) ELSE Fin(RInt(ys[i]))]
        Members(b) == SortedSeq({i \in 1..Len(xs) : bin[i] = b})
        Col(c, b) == [m \in 1..Len(Members(b)) |-> c[Members(b)[m]]]
        rows == [g \in 1..Len(keys) |->
                    [bin |-> keys[g],
                     x |-> Reduce(strategy, Col(colx, keys[g])),
                     y |-> Reduce(strategy, Col(coly, keys[g])),
                     slope |-> IF Len(slopes) = 0 THEN Fin(RInt(0))
                               ELSE Reduce(strategy, Col(slopes, keys[g]))]]
        HasNoNaN(r) == IsNotNaN(r.x) /\ IsNotNaN(r.y) /\ IsNotNaN(r.slope)
    IN  SelectSeq(rows, HasNoNaN)

\* The x of a grouped row once logdomain is undone.
RowX(row, logdomain) == IF logdomain THEN XExp(row.x.v) ELSE XLin(row.x.v)

\* The y of a grouped row once logdomain is undone, as an output number.
RowY(row, logdomain) ==
    IF ~logdomain THEN YNum(row.y.v)
    ELSE IF row.y.k = "ninf" THEN YNum(RInt(0))
    ELSE YPow(RInt(1), XExp(row.y.v), Fin(RInt(1)), RInt(1))

\* Line 83: the power-law values of the slope strategies are raised to 0.5,
\* whatever ypower is.
SlopePowerGiven(ypower) == ypower
SlopePower(ypower) == Half

\* Line 47 evaluates STRAT_USED[strategy] before "not silent": a name that
\* is no key of STRAT_USED raises KeyError whatever silent is.
LookupRaisesLazy(strategy, silent) == strategy \notin strats /\ ~silent
LookupRaises(strategy, silent) == strategy \notin strats

\* Lines 47-51: the banner is printed, and STRAT_USED[strategy] set, by a
\* call that is not silent when the flag of its strategy is not set yet.
BannerDueUnlessSilent(su, strategy, silent) == ~silent
BannerDue(su, strategy, silent) == ~silent /\ ~su[strategy]

\* np.insert(xs, len(xs), point): the points are put after the curve.
InsertAllAtEnd(out, add_after, coord) ==
    out \o [i \in 1..Len(add_after) |->
               IF coord = 1 THEN XLin(RInt(add_after[i][1]))
               ELSE YNum(RInt(add_after[i][2]))]

\* add_after: every point is inserted at position 0, one after the other.
RECURSIVE InsertAll(_, _, _)
InsertAll(out, add_after, coord) ==
    IF Len(add_after) = 0 THEN out
    ELSE InsertAll(<<IF coord = 1 THEN XLin(RInt(Head(add_after)[1]))
                     ELSE YNum(RInt(Head(add_after)[2]))>> \o out,
                   Tail(add_after), coord)

\* What a call leaves behind: how it ended, the stages of data processing
\* it entered before that, the returned values (those of full_output), the
\* knots given to the spline constructor, the module-level STRAT_USED and
\* whether the banner was printed.
Raised(err, steps, su, printed) ==
    [outcome |-> "raised", error |-> err, steps |-> steps,
     xs |-> <<>>, ys |-> <<>>, nedges |-> 0, bin |-> <<>>, bins |-> <<>>,
     binned_indices |-> <<>>, grouped_points |-> <<>>, knots |-> <<>>,
     STRAT_USED |-> su, printed |-> printed]

Returned(xs, ys, b, groups, steps, su, printed) ==
    [outcome |-> "returned", error |-> "none", steps |-> steps,
     xs |-> xs, ys |-> ys, nedges |-> b.nedges, bin |-> b.bin, bins |-> b.bins,
     binned_indices |-> b.binned_indices, grouped_points |-> groups,
     knots |-> <<>>,
     STRAT_USED |-> su, printed |-> printed]

\* bin_and_average(xs, ys, fixed_point, nbins, ypower, add_after, strategy,
\* logdomain, silent) run with STRAT_USED = su.  rnd is the rounding of the
\* bin edges; fit and spl are what scipy's curve_fit and LSQUnivariateSpline
\* answer (external collaborators).
bin_and_average(xs, ys, fixed_point, nbins, ypower, add_after, strategy, logdomain, silent, su, rnd, fit, spl) ==
    IF Len(xs) = 0 THEN Raised("ValueError", {}, su, FALSE)
    ELSE IF IsNone(fixed_point) /\ strategy = "slope"
    THEN Raised("AssertionError", {}, su, FALSE)
    ELSE
    LET xrange == BinRange(xs)
        fixed_point_sq == <<fixed_point[1], fixed_point[2] * fixed_point[2]>>
        slopes == IF IsNone(fixed_point) THEN <<>>
                  ELSE [i \in 1..Len(xs) |->
                           calculate_slope(fixed_point_sq, <<xs[i], ys[i]>>)]
        steps1 == IF IsNone(fixed_point) THEN {} ELSE {"slopes"}
    IN
    IF LookupRaises(strategy, silent) THEN Raised("KeyError", steps1, su, FALSE)
    ELSE
    LET printed == BannerDue(su, strategy, silent)
        su2 == IF printed THEN [su EXCEPT ![strategy] = TRUE] ELSE su
        b == bin_by_values(xs, xrange, nbins + 1, "log", rnd)
        steps2 == steps1 \cup {"bin_by_values"}
    IN
    IF b.error # "none" THEN Raised(b.error, steps2, su2, printed)
    ELSE
    LET grouped_points == group_points(xs, ys, b.binned_indices)
        steps3 == steps2 \cup {"group_points"}
        bucketed == strategy \in {"y_mean", "y_median", "slope_mean", "slope_median"}
        rows == GroupRows(xs, ys, slopes, b.bin, strategy, logdomain)
        steps4 == IF bucketed THEN steps3 \cup {"groupby"} ELSE steps3
        lo == RInt(Log2(xrange[1]))
        hi == RInt(Log2(xrange[2]))
        points == EvalPoints(lo, hi, nbins)
        Done(oxs, oys) ==
            Returned(InsertAll(oxs, add_after, 1), InsertAll(oys, add_after, 2),
                     b, grouped_points, steps4, su2, printed)
    IN
    CASE strategy \in {"y_mean", "y_median"} ->
            Done([g \in 1..Len(rows) |-> RowX(rows[g], logdomain)],
                 [g \in 1..Len(rows) |-> YRaise(RowY(rows[g], logdomain), ypower)])
      [] strategy \in {"slope_mean", "slope_median"} ->
            IF IsNone(fixed_point) THEN Raised("KeyError", steps4, su2, printed)
            ELSE Done([g \in 1..Len(rows) |-> RowX(rows[g], logdomain)],
                      [g \in 1..Len(rows) |->
                          YRaise(eval_power_function(RowX(rows[g], logdomain),
                                                     rows[g].slope, fixed_point),
                                 SlopePower(ypower))])
      [] strategy = "fit" ->
            IF IsNone(fixed_point) THEN Raised("TypeError", steps4 \cup {"curve_fit"}, su2, printed)
            ELSE IF ~fit.ok THEN Raised("RuntimeError", steps4 \cup {"curve_fit"}, su2, printed)
            ELSE Done(points,
                      [i \in 1..Len(points) |->
                          eval_power_function(points[i], Fin(fit.slope), fixed_point)])
      [] strategy = "spline" ->
            LET t == SplineKnots(lo, hi, nbins)
            IN  IF ~SplineInputOk(xs) \/ ~spl
                THEN [Raised("ValueError", steps4 \cup {"spline"}, su2, printed)
                         EXCEPT !.knots = t]
                ELSE [Done(points, [i \in 1..Len(points) |-> YSpline(points[i])])
                         EXCEPT !.knots = t]
      [] OTHER ->
            \* No branch of lines 79-121 matches: xs = df['x'].values, ys as given.
            Done([i \in 1..Len(xs) |->
                     IF logdomain THEN XExp(RInt(Log2(xs[i]))) ELSE XLin(RInt(xs[i]))],
                 [i \in 1..Len(xs) |-> YNum(RInt(ys[i]))])

\* ------------------------------------------------------------ the calls
\* Samples (x, y): x a query count, y a squared error.
Pool == {<<1, 1>>, <<2, 4>>, <<2, 1>>, <<4, 0>>}

RECURSIVE SeqsUpTo(_, _)
SeqsUpTo(S, n) ==
    IF n = 0 THEN {<<>>}
    ELSE LET shorter == SeqsUpTo(S, n - 1)
         IN  shorter \cup {Append(q, e) : q \in {t \in shorter : Len(t) = n - 1}, e \in S}

\* The scatter of several runs in any order, up to MaxLen samples, and the
\* traces of one run (x increasing, no sample twice) long enough for the
\* spline.
Increasing(pts) == \A i \in 1..(Len(pts) - 1) : pts[i][1] <= pts[i + 1][1]
Injective(pts) == \A i, j \in 1..Len(pts) : pts[i] = pts[j] => i = j
Traces ==
    {t \in SeqsUpTo(Pool, SplineOrder + 1) :
        Len(t) = SplineOrder + 1 /\ Increasing(t) /\ Injective(t)}
PointSets == SeqsUpTo(Pool, MaxLen) \cup Traces
Xs(pts) == [i \in 1..Len(pts) |-> pts[i][1]]
Ys(pts) == [i \in 1..Len(pts) |-> pts[i][2]]

FixedPoints == {None, <<2, 2>>}
Strategies == strats \cup {"slope", "mean"}
YPowers == {Half, RInt(1)}
AddAfters == {None}
FitOutcomes == {[ok |-> FALSE, slope |-> RInt(0)],
                [ok |-> TRUE, slope |-> RInt(-1)],
                [ok |-> TRUE, slope |-> <<-1, 2>>]}
\* curve_fit and the spline constructor answer only when they are called.
FitChoices(strategy, fixed_point) ==
    IF strategy = "fit" /\ ~IsNone(fixed_point) THEN FitOutcomes
    ELSE {[ok |-> FALSE, slope |-> RInt(0)]}
SplineChoices(strategy, xs) ==
    IF strategy = "spline" /\ SplineInputOk(xs) THEN BOOLEAN ELSE {FALSE}
XRanges == {<<lo, hi>> : lo \in {0, 1, 2}, hi \in {2, 4}}
Scales == {"log", "linear"}

\* The rounding of an edge shows only when a sample lies exactly on it; the
\* other edges are taken as exact.
SeenRoundings(xs, xrange, k, scale) ==
    {rnd \in Roundings(xrange[1], xrange[2], k, scale) :
        \A j \in 0..(k - 1) :
            (\A i \in 1..Len(xs) :
                \/ BinError(xrange[1], xrange[2], k, scale) # "none"
                \/ EdgeCmp(xs[i], j, xrange[1], xrange[2], k, scale) # 0)
            => rnd[j] = 0}

VARIABLES pts, STRAT_USED, pc, call, ret, qae, bae, emu

vars == <<pts, STRAT_USED, pc, call, ret, qae, bae, emu>>
binvars == <<pts, STRAT_USED, pc, call, ret>>

\* The arguments of the call made, with what the platform answered during
\* it: the rounding of the edges (rnd) and the outcomes of curve_fit (fit)
\* and of the spline constructor (spl).
NoCall ==
    [op |-> "none", xs |-> <<>>, ys |-> <<>>, fixed_point |-> None, nbins |-> 0,
     ypower |-> Half, add_after |-> None, strategy |-> "y_mean",
     logdomain |-> FALSE, silent |-> TRUE, xrange |-> <<1, 1>>, scale |-> "log",
     rnd |-> <<>>, fit |-> [ok |-> FALSE, slope |-> RInt(0)], spl |-> FALSE]

\* TestQAE.sqe_evolution_multiple, its locals and what it handed on: the
\* data registered with EstimationData.add_data, the nruns and m-range given
\* to ExecutionData, whether the data was saved and plotted.  run holds the
\* list sqes of sqes_given_m; completed every run finished so far.
NoQae ==
    [pc |-> "idle", outcome |-> "none", error |-> "none",
     mmin |-> 0, Nq_target |-> 0, nshots |-> 0, nruns |-> 0, save |-> FALSE,
     mmax |-> 0, ms |-> <<>>, nqs |-> <<>>, sqe_by_step |-> <<>>,
     i |-> 0, m |-> 0, run |-> <<>>, sqes_bound |-> FALSE, sqes |-> <<>>,
     interrupted |-> FALSE, completed |-> <<>>,
     registered |-> FALSE, est_nqs |-> <<>>, est_errs |-> <<>>,
     ex_nruns |-> 0, ex_mmax |-> 0, saved |-> FALSE, plotted |-> FALSE]

\* TestBAE.sqe_evolution_multiple with its Runner: the runs asked for, the
\* data of the runs the Runner completed (rdata), the number runner.run()
\* returned, and what the caller did with them: the data given to
\* create_estdata, whether process_and_plot ran, the number of runs given to
\* create_execdata and whether save_to_file ran.
NoBae ==
    [pc |-> "idle", nruns |-> 0, save |-> FALSE, rdata |-> <<>>,
     interrupted |-> FALSE, run_returned |-> 0,
     estdata_made |-> FALSE, estdata |-> <<>>, plotted |-> FALSE,
     ex_nruns |-> 0, saved |-> FALSE]

\* The caller holds a point set; the module has just been imported; no
\* experiment has been started (its record is made by the call).
Init ==
    /\ pts \in PointSets
    /\ STRAT_USED = [s \in strats |-> FALSE]
    /\ pc = "idle"
    /\ call = NoCall
    /\ ret = Raised("none", {}, STRAT_USED, FALSE)
    /\ qae = [pc |-> "idle"]
    /\ bae = [pc |-> "idle"]
    /\ emu = [pc |-> "idle"]

\* A caller runs bin_and_average on its point set to the end, with the
\* keyword arguments drawn from the given sets; the module keeps STRAT_USED.
CallBinAndAverage(nbinss, fixed_points, ypowers, addafters, logdomains, silents) ==
    /\ \E nbins \in nbinss :
        \E rnd \in SeenRoundings(Xs(pts), BinRange(Xs(pts)), nbins + 1, "log") :
        \E strategy \in Strategies, fixed_point \in fixed_points :
        \E fit \in FitChoices(strategy, fixed_point), spl \in SplineChoices(strategy, Xs(pts)),
           ypower \in ypowers, add_after \in addafters,
           logdomain \in logdomains, silent \in silents :
          /\ call' = [NoCall EXCEPT !.op = "bin_and_average", !.xs = Xs(pts),
                         !.ys = Ys(pts), !.fixed_point = fixed_point,
                         !.nbins = nbins, !.ypower = ypower,
                         !.add_after = add_after, !.strategy = strategy,
                         !.logdomain = logdomain, !.silent = silent,
                         !.rnd = rnd, !.fit = fit, !.spl = spl]
          /\ ret' = bin_and_average(Xs(pts), Ys(pts), fixed_point, nbins, ypower,
                                    add_after, strategy, logdomain, silent,
                                    STRAT_USED, rnd, fit, spl)
          /\ STRAT_USED' = ret'.STRAT_USED
          /\ UNCHANGED <<pts, qae, bae, emu>>

\* The first call of a process.
BinAndAverage ==
    /\ pc = "idle"
    /\ CallBinAndAverage(0..MaxBins, FixedPoints, YPowers, AddAfters, BOOLEAN, BOOLEAN)
    /\ pc' = "done"

\* A caller runs bin_by_values on a frame of its own.
BinByValues ==
    /\ pc = "idle"
    /\ \E xrange \in XRanges, nbins \in 0..(MaxBins + 1), scale \in Scales :
        \E rnd \in SeenRoundings(Xs(pts), xrange, nbins, scale) :
          LET b == bin_by_values(Xs(pts), xrange, nbins, scale, rnd)
          IN  /\ call' = [NoCall EXCEPT !.op = "bin_by_values", !.xs = Xs(pts),
                             !.ys = Ys(pts), !.nbins = nbins, !.xrange = xrange,
                             !.scale = scale, !.rnd = rnd]
              /\ ret' = IF b.error # "none"
                        THEN Raised(b.error, {"bin_by_values"}, STRAT_USED, FALSE)
                        ELSE Returned(<<>>, <<>>, b, <<>>, {"bin_by_values"},
                                      STRAT_USED, FALSE)
              /\ pc' = "done"
              /\ UNCHANGED <<pts, STRAT_USED, qae, bae, emu>>

Next == BinAndAverage \/ BinByValues

Spec == Init /\ [][Next]_vars

\* ---------------------------------------------------- calls with add_after
\* The points a caller asks to be added to the curve.
AddAfterLists == {<<<<8, 3>>>>, <<<<8, 3>>, <<16, 5>>>>}

\* A call that passes add_after, the other keywords as the callers of the
\* repository leave them (logdomain and silent at their defaults).
BinAndAverageAddAfter ==
    /\ pc = "idle"
    /\ CallBinAndAverage(0..MaxBins, FixedPoints, YPowers, AddAfterLists, {FALSE}, {TRUE})
    /\ pc' = "done"

SpecAddAfter == Init /\ [][BinAndAverageAddAfter]_vars

\* ------------------------------------------------------------ silent calls
\* A call with silent=True: no banner is printed and STRAT_USED is left
\* alone; every other keyword is free.
BinAndAverageSilent ==
    /\ pc = "idle"
    /\ CallBinAndAverage(0..MaxBins, FixedPoints, YPowers, AddAfters, BOOLEAN, {TRUE})
    /\ pc' = "done"

SpecSilent == Init /\ [][BinAndAverageSilent]_vars

\* ------------------------------------------------- several calls in a row
MaxRecallLen == 1

\* A process that calls bin_and_average twice on a short point set, with the
\* same nbins and fixed_point, any strategy and silent.
InitCalls == Init /\ Len(pts) <= MaxRecallLen

BinAndAverageFirst ==
    /\ pc = "idle"
    /\ CallBinAndAverage(0..MaxBins, FixedPoints, {Half}, AddAfters, {FALSE}, BOOLEAN)
    /\ pc' = "done"

BinAndAverageAgain ==
    /\ pc = "done"
    /\ CallBinAndAverage({call.nbins}, {call.fixed_point}, {Half}, AddAfters, {FALSE}, BOOLEAN)
    /\ pc' = "again"

NextCalls == BinAndAverageFirst \/ BinAndAverageAgain

SpecCalls == InitCalls /\ [][NextCalls]_vars

\* ------------------------------------------- calls on one data set, then another
\* A process that calls bin_and_average, takes other points and calls it
\* again, with nbins = 1, no fixed point and any strategy and silent.
TakePoints ==
    /\ pc = "done"
    /\ pts' \in {p \in PointSets : Len(p) <= MaxRecallLen}
    /\ pts' # pts
    /\ UNCHANGED <<STRAT_USED, pc, call, ret, qae, bae, emu>>

BinAndAverageOne ==
    /\ pc = "idle"
    /\ CallBinAndAverage({1}, {None}, {Half}, AddAfters, {FALSE}, BOOLEAN)
    /\ pc' = "done"

BinAndAverageNext ==
    /\ pc = "done"
    /\ CallBinAndAverage({1}, {None}, {Half}, AddAfters, {FALSE}, BOOLEAN)
    /\ pc' = "again"

NextBanner == BinAndAverageOne \/ TakePoints \/ BinAndAverageNext

SpecBanner == InitCalls /\ [][NextBanner]_vars

\* ------------------------------------------------ QAE_emulator.py: TestQAE
MaxRuns == 2

\* Sign of (a/b)^2 - 2^e, for a >= 0, b > 0 and any integer e.
Pow2Cmp(a, b, e) ==
    LET l == IF e >= 0 THEN a * a ELSE a * a * IPow(2, -e)
        r == IF e >= 0 THEN IPow(2, e) * b * b ELSE b * b
    IN  IF l < r THEN -1 ELSE IF l > r THEN 1 ELSE 0

\* int(round(np.log2(a/b) - 1)) for a/b > 0: the integer m with
\* m - 1/2 <= log2(a/b) - 1 <= m + 1/2, that is 2^(2m+1) <= (a/b)^2 <= 2^(2m+3)
\* (no tie: 2^(m + 1/2) is irrational).
RECURSIVE RoundLog2Less1(_, _, _)
RoundLog2Less1(a, b, m) ==
    IF Pow2Cmp(a, b, 2 * m + 1) < 0 THEN RoundLog2Less1(a, b, m - 1)
    ELSE IF Pow2Cmp(a, b, 2 * m + 3) > 0 THEN RoundLog2Less1(a, b, m + 1)
    ELSE m

\* QAEemulator.Nq_from_m(m, nshots) = (2 * 2**m + 1) * nshots, a rational
\* (2**m is a float for m < 0).
Nq_from_m(m, nshots) ==
    LET pow == IF m >= 0 THEN RInt(IPow(2, m)) ELSE Rat(1, IPow(2, -m))
    IN  RMul(RAdd(RMul(RInt(2), pow), RInt(1)), RInt(nshots))

\* QAEemulator.m_from_Nq(Nq_target, nshots): np.log2 of 0 is -inf and of a
\* negative number nan, which int(round(.)) refuses.
m_from_NqPerCircuit(Nq_target, nshots) ==
    IF Nq_target - 1 <= 0
    THEN [error |-> IF Nq_target - 1 = 0 THEN "OverflowError" ELSE "ValueError",
          m |-> 0]
    ELSE [error |-> "none", m |-> RoundLog2Less1(Nq_target - 1, 1, 0)]
m_from_Nq(Nq_target, nshots) ==
    IF Nq_target - nshots <= 0
    THEN [error |-> IF Nq_target - nshots = 0 THEN "OverflowError" ELSE "ValueError",
          m |-> 0]
    ELSE [error |-> "none", m |-> RoundLog2Less1(Nq_target - nshots, nshots, 0)]

\* list(range(lo, hi, 2))
RECURSIVE RangeBy2(_, _)
RangeBy2(lo, hi) == IF lo >= hi THEN <<>> ELSE <<lo>> \o RangeBy2(lo + 2, hi)

\* The squared error of one run: zero (an exact case) or not.
Errors == {0, 1}
MMins == {0, 1}
NqTargets == {1, 2, 3, 9, 24}
NShots == {1, 2}

\* Lines 507-523: what follows the loop.
AfterLoopNoEarlyReturn(q) ==
    LET q1 == [q EXCEPT !.pc = "done", !.registered = TRUE,
                        !.est_nqs = q.nqs, !.est_errs = q.sqe_by_step,
                        !.ex_nruns = q.nruns, !.ex_mmax = q.mmax,
                        !.saved = q.save]
    IN  IF ~q.sqes_bound
        THEN [q1 EXCEPT !.outcome = "raised", !.error = "UnboundLocalError"]
        ELSE [q1 EXCEPT !.outcome = "returned",
                        !.plotted = \E j \in 1..Len(q.sqes) : q.sqes[j] # 0]
AfterLoop(q) ==
    IF q.mmax = q.mmin THEN [q EXCEPT !.pc = "done", !.outcome = "returned"]
    ELSE LET q1 == [q EXCEPT !.pc = "done", !.registered = TRUE,
                             !.est_nqs = q.nqs, !.est_errs = q.sqe_by_step,
                             !.ex_nruns = q.nruns, !.ex_mmax = q.mmax,
                             !.saved = q.save]
         IN  IF ~q.sqes_bound
             THEN [q1 EXCEPT !.outcome = "raised", !.error = "UnboundLocalError"]
             ELSE [q1 EXCEPT !.outcome = "returned",
                             !.plotted = \E j \in 1..Len(q.sqes) : q.sqes[j] # 0]

\* Lines 484-497: the call, up to the first run of the first step.
QaeStart ==
    /\ qae.pc = "idle" /\ bae.pc = "idle"
    /\ \E mmin \in MMins, Nq_target \in NqTargets, nshots \in NShots,
          nruns \in 0..MaxRuns, save \in BOOLEAN :
         LET mm == m_from_Nq(Nq_target, nshots)
             ms == RangeBy2(mmin, mm.m + 1)
             q == [NoQae EXCEPT !.mmin = mmin, !.Nq_target = Nq_target,
                                !.nshots = nshots, !.nruns = nruns, !.save = save]
         IN  qae' = IF mm.error # "none"
                    THEN [q EXCEPT !.pc = "done", !.outcome = "raised",
                                   !.error = mm.error]
                    ELSE LET q1 == [q EXCEPT !.mmax = mm.m, !.ms = ms,
                                       !.nqs = [j \in 1..Len(ms) |-> Nq_from_m(ms[j], nshots)]]
                         IN  IF Len(ms) = 0 THEN AfterLoop(q1)
                             ELSE [q1 EXCEPT !.pc = "trials", !.i = 1, !.m = ms[1]]
    /\ UNCHANGED <<binvars, bae, emu>>

\* sqes_given_m, lines 538-548: one more run of the current step.
QaeTrial ==
    /\ qae.pc = "trials"
    /\ Len(qae.run) < qae.nruns
    /\ \E sqe \in Errors :
         qae' = [qae EXCEPT !.run = Append(@, sqe), !.completed = Append(@, sqe)]
    /\ UNCHANGED <<binvars, bae, emu>>

\* Lines 498-499 and 494-497: sqes_given_m returns, the step is recorded and
\* the next one begins, or the loop ends.
QaeStepDone ==
    /\ qae.pc = "trials"
    /\ Len(qae.run) = qae.nruns
    /\ LET q == [qae EXCEPT !.sqes_bound = TRUE, !.sqes = qae.run,
                            !.sqe_by_step = Append(@, qae.run), !.run = <<>>]
       IN  qae' = IF qae.i < Len(qae.ms)
                  THEN [q EXCEPT !.i = qae.i + 1, !.m = qae.ms[qae.i + 1]]
                  ELSE AfterLoop(q)
    /\ UNCHANGED <<binvars, bae, emu>>

\* Lines 500-505: a KeyboardInterrupt during the step, at any run of it.
QaeInterrupt ==
    /\ qae.pc = "trials"
    /\ qae' = AfterLoop([qae EXCEPT !.interrupted = TRUE, !.mmax = qae.m,
                                    !.run = <<>>])
    /\ UNCHANGED <<binvars, bae, emu>>

\* ------------------------------------------------ BAE_testing.py: TestBAE
\* Line 132: the caller's test for a Runner that completed no run.
NoDataNever(nruns) == FALSE
NoData(nruns) == nruns = 0

\* Lines 127-143: runner.run() has returned nruns; the caller reads rdata
\* and, unless there is no data, aggregates, plots and saves.
AfterRun(b, nruns) ==
    LET b1 == [b EXCEPT !.pc = "done", !.run_returned = nruns]
    IN  IF NoData(nruns) THEN b1
        ELSE [b1 EXCEPT !.estdata_made = TRUE, !.estdata = b.rdata,
                        !.plotted = TRUE, !.ex_nruns = IF b.save THEN nruns ELSE 0,
                        !.saved = b.save]

\* Lines 119-127: the caller builds the Runner and starts it.
BaeStart ==
    /\ bae.pc = "idle" /\ qae.pc = "idle"
    /\ \E nruns \in 0..MaxRuns, save \in BOOLEAN :
         bae' = [NoBae EXCEPT !.pc = "running", !.nruns = nruns, !.save = save]
    /\ UNCHANGED <<binvars, qae, emu>>

\* The Runner completes one more run and hands its trace to rdata.
BaeTrial ==
    /\ bae.pc = "running"
    /\ Len(bae.rdata) < bae.nruns
    /\ \E sqe \in Errors : bae' = [bae EXCEPT !.rdata = Append(@, sqe)]
    /\ UNCHANGED <<binvars, qae, emu>>

\* The Runner has completed every run; run() returns their number.
BaeRunReturns ==
    /\ bae.pc = "running"
    /\ Len(bae.rdata) = bae.nruns
    /\ bae' = AfterRun(bae, Len(bae.rdata))
    /\ UNCHANGED <<binvars, qae, emu>>

\* The user interrupts the Runner; run() returns the number of runs
\* completed so far.
BaeInterrupt ==
    /\ bae.pc = "running"
    /\ Len(bae.rdata) < bae.nruns
    /\ bae' = AfterRun([bae EXCEPT !.interrupted = TRUE], Len(bae.rdata))
    /\ UNCHANGED <<binvars, qae, emu>>

\* One experiment per process: canonical QAE or Bayesian QAE.
InitRuns == Init /\ pts = <<>>

NextRuns ==
    \/ QaeStart \/ QaeTrial \/ QaeStepDone \/ QaeInterrupt
    \/ BaeStart \/ BaeTrial \/ BaeRunReturns \/ BaeInterrupt

SpecRuns == InitRuns /\ [][NextRuns]_vars

\* -------------------------------------------- QAE_emulator.py: QAEemulator
MaxM == 3

\* round(np.sin(np.pi * o / 2**m)**2, 4) in units of 1e-4, for m = 0, 1, ...
\* and o = 0 .. 2^m - 1 (the doubles numpy computes, rounded by Python).
AmpTable ==
    << <<0>>,
       <<0, 10000>>,
       <<0, 5000, 10000, 5000>>,
       <<0, 1464, 5000, 8536, 10000, 8536, 5000, 1464>>,
       <<0, 381, 1464, 3087, 5000, 6913, 8536, 9619,
         10000, 9619, 8536, 6913, 5000, 3087, 1464, 381>> >>

\* QAEemulator.amp_from_outcome(o) of an emulator with m auxiliary qubits.
amp_from_outcome(o, m) == AmpTable[m + 1][o + 1]

\* k_largest_tuples(plist, k=1, sortby=1)[0][0]: an outcome with the most
\* hits, any of them when several have as many.
MostFrequent(plist) ==
    {o \in DOMAIN plist : \A other \in DOMAIN plist : plist[other] <= plist[o]}

\* search_range_from_plist, lines 143-158, for the most frequent outcome
\* taken as either neighbour's stand-in at the ends.
search_range_from_mode(most_freq_outcome, m) ==
    LET b1 == IF most_freq_outcome > 0
              THEN amp_from_outcome(most_freq_outcome - 1, m)
              ELSE amp_from_outcome(most_freq_outcome, m)
        b2 == IF most_freq_outcome < IPow(2, m) - 1
              THEN amp_from_outcome(most_freq_outcome + 1, m)
              ELSE amp_from_outcome(most_freq_outcome, m)
    IN  [lb |-> IF b1 <= b2 THEN b1 ELSE b2, hb |-> IF b1 <= b2 THEN b2 ELSE b1]

\* An emulator of m auxiliary qubits and nshots shots, its list of hits per
\* outcome, the most frequent outcome and the search range found for it;
\* for the static methods, the number of queries of m and the m got back.
NoEmu ==
    [pc |-> "idle", m |-> 0, nshots |-> 0, shots |-> 0, plist |-> <<>>,
     o |-> 0, lb |-> 0, hb |-> 0, Nq |-> RInt(0), m_back |-> 0, error |-> "none"]

\* QAEemulator(theta, m, nshots) is built; no shot has been drawn.
EmuStart ==
    /\ emu.pc = "idle"
    /\ \E m \in 0..MaxM, nshots \in NShots :
         emu' = [NoEmu EXCEPT !.pc = "sampling", !.m = m, !.nshots = nshots,
                              !.plist = [o \in 0..(IPow(2, m) - 1) |-> 0]]
    /\ UNCHANGED <<binvars, qae, bae>>

\* probability_list, line 223: the multinomial sample, one shot at a time.
EmuShot ==
    /\ emu.pc = "sampling"
    /\ emu.shots < emu.nshots
    /\ \E o \in DOMAIN emu.plist :
         emu' = [emu EXCEPT !.shots = @ + 1, !.plist[o] = @ + 1]
    /\ UNCHANGED <<binvars, qae, bae>>

\* estimate, line 113: the search range of the sampled list.
EmuSearchRange ==
    /\ emu.pc = "sampling"
    /\ emu.shots = emu.nshots
    /\ \E o \in MostFrequent(emu.plist) :
         LET rng == search_range_from_mode(o, emu.m)
         IN  emu' = [emu EXCEPT !.pc = "ranged", !.o = o,
                                !.lb = rng.lb, !.hb = rng.hb]
    /\ UNCHANGED <<binvars, qae, bae>>

\* Shots per circuit given to the static methods.
QueryShots == {1, 2, 3, 10, 100}

\* A caller asks the static method for the queries of m Grover iterations.
EmuQueries ==
    /\ emu.pc = "idle"
    /\ \E m \in 0..MaxM, nshots \in QueryShots :
         emu' = [NoEmu EXCEPT !.pc = "queries", !.m = m, !.nshots = nshots,
                              !.Nq = Nq_from_m(m, nshots)]
    /\ UNCHANGED <<binvars, qae, bae>>

\* The caller asks the other static method for the m of these queries.
EmuIterations ==
    /\ emu.pc = "queries"
    /\ LET back == m_from_Nq(emu.Nq[1], emu.nshots)
       IN  emu' = [emu EXCEPT !.pc = "inverted", !.m_back = back.m,
                              !.error = back.error]
    /\ UNCHANGED <<binvars, qae, bae>>

NextEmulator ==
    \/ EmuStart \/ EmuShot \/ EmuSearchRange \/ EmuQueries \/ EmuIterations

SpecEmulator == InitRuns /\ [][NextEmulator]_vars

\* ================================================================ claims
Called(op) == pc = "done" /\ call.op = op
ReturnedFrom(op) == Called(op) /\ ret.outcome = "returned"
Bucketed == call.strategy \in {"y_mean", "y_median", "slope_mean", "slope_median"}
SlopeBased == call.strategy \in {"slope_mean", "slope_median"}
Keys == DOMAIN ret.binned_indices
KeySeq == SortedSeq(Keys)

\* Statistics of integer samples, computed on their own.
RECURSIVE SumSeq(_)
SumSeq(q) == IF Len(q) = 0 THEN 0 ELSE Head(q) + SumSeq(Tail(q))
RatMean(q) == Rat(SumSeq(q), Len(q))
Rank(q, i) == Cardinality({j \in 1..Len(q) : q[j] < q[i] \/ (q[j] = q[i] /\ j < i)}) + 1
AtRank(q, r) == q[CHOOSE i \in 1..Len(q) : Rank(q, i) = r]
RatMedian(q) ==
    IF Len(q) % 2 = 1 THEN RInt(AtRank(q, (Len(q) + 1) \div 2))
    ELSE Rat(AtRank(q, Len(q) \div 2) + AtRank(q, Len(q) \div 2 + 1), 2)
Stat(q) == IF call.strategy = "y_mean" THEN RatMean(q) ELSE RatMedian(q)
MemberSeq(b) == SortedSeq(ret.binned_indices[b])
MemberXs(b) == [m \in 1..Len(MemberSeq(b)) |-> call.xs[MemberSeq(b)[m]]]
MemberYs(b) == [m \in 1..Len(MemberSeq(b)) |-> call.ys[MemberSeq(b)[m]]]

\* Order and sign of the x of the output.
XLess(a, b) == a.k = b.k /\ RLess(a.v, b.v)
XPositive(a) == a.k = "exp" \/ RSign(a.v) > 0

\* C1: whenever bin_and_average returns for a supported strategy and no
\* add_after, the returned x-values are strictly ascending and all positive.
C1_AscendingPositive ==
    (ReturnedFrom("bin_and_average") /\ call.strategy \in strats /\ IsNone(call.add_after))
    => /\ \A g \in 1..(Len(ret.xs) - 1) : XLess(ret.xs[g], ret.xs[g + 1])
       /\ \A g \in 1..Len(ret.xs) : XPositive(ret.xs[g])

\* The spline strategy returned a curve of several points.
C1_Witness ==
    /\ ReturnedFrom("bin_and_average")
    /\ call.strategy = "spline"
    /\ Len(ret.xs) >= 2

\* The aggregated slope of a bucket, from the samples of the call.
SampleSlope(i) ==
    calculate_slope(<<call.fixed_point[1], call.fixed_point[2] * call.fixed_point[2]>>,
                    <<call.xs[i], call.ys[i]>>)
BucketSlope(b) ==
    Reduce(call.strategy, [m \in 1..Len(MemberSeq(b)) |-> SampleSlope(MemberSeq(b)[m])])
KeptKeys == {b \in Keys : IsNone(call.fixed_point) \/ IsNotNaN(BucketSlope(b))}

\* C2 as stated: for the bucket-based strategies there is exactly one output
\* pair per bucket that holds a sample, and no bucket without a sample is a
\* key of the mapping.
C2_OnePairPerBucket ==
    /\ pc = "done" => \A b \in Keys : ret.binned_indices[b] # {}
    /\ (ReturnedFrom("bin_and_average") /\ Bucketed)
       => Len(ret.xs) = Cardinality(Keys) /\ Len(ret.ys) = Cardinality(Keys)

\* C2 as amended: one output pair per bucket that holds a sample and whose
\* aggregated slope (when a fixed point is given) is not nan, in bucket
\* order, each x within the x-values of its bucket; a bucket that holds a
\* sample but aggregates to a nan slope yields no pair; no bucket without a
\* sample is a key of the mapping of bin_by_values.
C2_OnePairPerKeptBucket ==
    /\ pc = "done" =>
          \A b \in Keys : ret.binned_indices[b] # {} /\ b \in 1..(ret.nedges - 1)
    /\ (ReturnedFrom("bin_and_average") /\ Bucketed)
       => LET kept == SortedSeq(KeptKeys)
          IN  /\ Len(ret.xs) = Len(kept)
              /\ Len(ret.ys) = Len(kept)
              /\ \A g \in 1..Len(ret.xs) :
                    LET mxs == MemberXs(kept[g])
                    IN  IF call.logdomain
                        THEN /\ ~RLess(ret.xs[g].v, RInt(Log2(SeqMin(mxs))))
                             /\ ~RLess(RInt(Log2(SeqMax(mxs))), ret.xs[g].v)
                        ELSE /\ ~RLess(ret.xs[g].v, RInt(SeqMin(mxs)))
                             /\ ~RLess(RInt(SeqMax(mxs)), ret.xs[g].v)

\* A bucket holds a sample and yields no pair, next to one that does.
C2_Witness ==
    /\ ReturnedFrom("bin_and_average")
    /\ Bucketed
    /\ Len(ret.xs) >= 1
    /\ Len(ret.xs) < Cardinality(Keys)

\* C3: with xrange = (min(x), max(x)) and at least one bucket asked for,
\* every sample index is in exactly one bucket of the mapping.
C3_Partition ==
    (/\ pc = "done"
     /\ ret.outcome = "returned"
     /\ \/ call.op = "bin_and_average" /\ call.nbins >= 1
        \/ /\ call.op = "bin_by_values"
           /\ call.nbins >= 2
           /\ Len(call.xs) > 0
           /\ call.xrange = BinRange(call.xs))
    => \A i \in 1..Len(call.xs) :
          Cardinality({b \in Keys : i \in ret.binned_indices[b]}) = 1

\* C4: for y_mean / y_median without fixed point and logdomain, each pair
\* is (mean or median of the bucket's x, (mean or median of the bucket's
\* y)^ypower); a bucket of one sample (x, y) gives (x, y^ypower); y_mean
\* with nbins = 1 and ypower = 1 gives the single pair (mean of all x, mean
\* of all y).
C4_MeanMedian ==
    (/\ ReturnedFrom("bin_and_average")
     /\ call.strategy \in {"y_mean", "y_median"}
     /\ IsNone(call.fixed_point)
     /\ ~call.logdomain)
    => /\ Len(ret.xs) = Len(KeySeq) /\ Len(ret.ys) = Len(KeySeq)
       /\ \A g \in 1..Len(KeySeq) :
             /\ ret.xs[g] = XLin(Stat(MemberXs(KeySeq[g])))
             /\ ret.ys[g] = YRaise(YNum(Stat(MemberYs(KeySeq[g]))), call.ypower)
             /\ Len(MemberSeq(KeySeq[g])) = 1 =>
                   /\ ret.xs[g] = XLin(RInt(MemberXs(KeySeq[g])[1]))
                   /\ ret.ys[g] = YRaise(YNum(RInt(MemberYs(KeySeq[g])[1])), call.ypower)
       /\ (call.strategy = "y_mean" /\ call.nbins = 1 /\ call.ypower = RInt(1))
          => /\ ret.xs = <<XLin(RatMean(call.xs))>>
             /\ ret.ys = <<YNum(RatMean(call.ys))>>

\* C5: for the slope strategies every aggregated y is the power law with
\* the constant x0 * y0^2, y0 the second coordinate of fixed_point.
C5_SquaredConstant ==
    (ReturnedFrom("bin_and_average") /\ SlopeBased)
    => \A g \in 1..Len(ret.ys) :
          YClass(ret.ys[g]) = "pos" =>
             /\ ret.ys[g].base = ret.xs[g]
             /\ ret.ys[g].c = RInt(call.fixed_point[1] * call.fixed_point[2]
                                     * call.fixed_point[2])

\* A sample of the call coincides with the fixed point in MSE space.
HasCoincidingSample ==
    \E i \in 1..Len(call.xs) :
        /\ call.xs[i] = call.fixed_point[1]
        /\ call.ys[i] = call.fixed_point[2] * call.fixed_point[2]

\* C6: a slope strategy with a fixed point never raises on an input that
\* holds a sample coinciding with the fixed point in MSE space, and a bucket
\* whose samples all have an undefined slope is absent from the output.
C6_NoRaiseOnCoincidence ==
    (/\ Called("bin_and_average")
     /\ SlopeBased
     /\ ~IsNone(call.fixed_point)
     /\ HasCoincidingSample)
    => /\ ret.outcome = "returned"
       /\ Len(ret.xs) = Cardinality(KeptKeys)

\* C7: every y that bin_and_average returns is a finite number.
C7_FiniteOutput ==
    ReturnedFrom("bin_and_average")
    => \A g \in 1..Len(ret.ys) : YClass(ret.ys[g]) \in {"pos", "zero"}

\* C8: a slope strategy without fixed point fails before any data
\* processing: no binning, no grouping, no banner.
C8_EagerConfigurationError ==
    (Called("bin_and_average") /\ SlopeBased /\ IsNone(call.fixed_point))
    => /\ ret.outcome = "raised"
       /\ ret.steps = {}
       /\ ~ret.printed

\* C9: a strategy name outside strats makes bin_and_average fail, whatever
\* the other arguments (silent included): it never returns a result.
C9_UnknownStrategyFails ==
    (Called("bin_and_average") /\ call.strategy \notin strats)
    => /\ ret.outcome = "raised"
       /\ ret.error \in {"KeyError", "AssertionError", "ValueError"}
       /\ ret.xs = <<>> /\ ret.ys = <<>>
       /\ ~ret.printed

\* An unknown strategy was rejected in a silent call on a non-empty input.
C9_Witness ==
    /\ Called("bin_and_average")
    /\ call.strategy = "mean"
    /\ call.silent
    /\ Len(call.xs) > 0
    /\ ret.error = "KeyError"

\* C10: bin_by_values fails, and returns no mapping, when the scale is log
\* and xrange[0] <= 0, and when fewer than one bin is asked for (its nbins
\* counts edges: fewer than two edges).
C10_RejectsBadRange ==
    (/\ Called("bin_by_values")
     /\ \/ call.scale = "log" /\ call.xrange[1] <= 0
        \/ call.nbins - 1 < 1)
    => ret.outcome = "raised"

\* The x-range, scale and edges of the binning of the call.
CallRange == IF call.op = "bin_and_average" THEN BinRange(call.xs) ELSE call.xrange
CallScale == IF call.op = "bin_and_average" THEN "log" ELSE call.scale
\* Edge j of the result is exactly the value v.
EdgeIs(j, v) ==
    /\ EdgeCmp(v, j, CallRange[1], CallRange[2], ret.nedges, CallScale) = 0
    /\ ret.bins[j] = 0

\* C13: bin_and_average with nbins = n >= 1 builds n + 1 edges, the first
\* exactly min(x) and the last exactly max(x); bin_by_values with nbins = k
\* builds k edges.
C13_EdgesSpanRange ==
    /\ (ReturnedFrom("bin_and_average") /\ call.nbins >= 1)
       => /\ ret.nedges = call.nbins + 1
          /\ DOMAIN ret.bins = 0..call.nbins
          /\ EdgeIs(0, SeqMin(call.xs))
          /\ EdgeIs(call.nbins, SeqMax(call.xs))
    /\ ReturnedFrom("bin_by_values")
       => ret.nedges = call.nbins /\ DOMAIN ret.bins = 0..(call.nbins - 1)

\* C14: with at least one bucket, a sample at xrange[0] is in the first
\* bucket, a sample at xrange[1] is in the last bucket, and a sample exactly
\* on an internal edge is in one bucket only.
C14_EdgePolicy ==
    (pc = "done" /\ ret.outcome = "returned" /\ ret.nedges >= 2)
    => \A i \in 1..Len(call.xs) :
          /\ call.xs[i] = CallRange[1] => ret.bin[i] = 1
          /\ call.xs[i] = CallRange[2] => ret.bin[i] = ret.nedges - 1
          /\ (\E j \in 1..(ret.nedges - 2) :
                 EdgeCmp(call.xs[i], j, CallRange[1], CallRange[2],
                         ret.nedges, CallScale) = 0)
             => Cardinality({b \in Keys : i \in ret.binned_indices[b]}) = 1

\* The call c made as the first call of a process, on the same platform.
OnFreshModule(c) ==
    bin_and_average(c.xs, c.ys, c.fixed_point, c.nbins, c.ypower, c.add_after,
                    c.strategy, c.logdomain, c.silent,
                    [s \in strats |-> FALSE], c.rnd, c.fit, c.spl)

\* The call made, made instead with another ypower.
WithYPower(ypower) == OnFreshModule([call EXCEPT !.ypower = ypower])

LogLo == RInt(Log2(SeqMin(call.xs)))
LogHi == RInt(Log2(SeqMax(call.xs)))
BucketCentre(k, n) ==
    RAdd(LogLo, RDiv(RMul(RInt(2 * k - 1), RSub(LogHi, LogLo)), RInt(2 * n)))
FitReturned == ReturnedFrom("bin_and_average") /\ call.strategy = "fit"

\* C16 as stated: fit returns nbins points, the k-th the log-scale centre of
\* the k-th bucket, each strictly inside (min(x), max(x)).
C16_FitPointsInside ==
    FitReturned
    => /\ Len(ret.xs) = call.nbins /\ Len(ret.ys) = call.nbins
       /\ \A k \in 1..Len(ret.xs) :
             /\ ret.xs[k] = XExp(BucketCentre(k, call.nbins))
             /\ RLess(LogLo, ret.xs[k].v) /\ RLess(ret.xs[k].v, LogHi)

\* C16 as amended: fit returns nbins points, the k-th the log-scale centre of
\* the k-th bucket; they are strictly inside (min(x), max(x)) when
\* min(x) < max(x), and the one point of nbins = 1 is min(x) itself when
\* min(x) = max(x).
C16_FitPointsAtCentres ==
    FitReturned
    => /\ Len(ret.xs) = call.nbins /\ Len(ret.ys) = call.nbins
       /\ \A k \in 1..Len(ret.xs) :
             /\ ret.xs[k] = XExp(BucketCentre(k, call.nbins))
             /\ IF SeqMin(call.xs) < SeqMax(call.xs)
                THEN RLess(LogLo, ret.xs[k].v) /\ RLess(ret.xs[k].v, LogHi)
                ELSE call.nbins = 1 /\ ret.xs[k] = XExp(LogLo)

\* fit returned several points over a range that is not a single value.
C16_Witness ==
    /\ FitReturned
    /\ call.nbins >= 2
    /\ SeqMin(call.xs) < SeqMax(call.xs)

\* The internal edges of the nbins buckets of the call, as exponents.
InternalEdges ==
    [j \in 1..(call.nbins - 1) |->
        XExp(RAdd(LogLo, RDiv(RMul(RInt(j), RSub(LogHi, LogLo)), RInt(call.nbins))))]

\* C17: the interior knots given to the least-squares spline are the
\* nbins - 1 internal edges of the nbins buckets.
C17_KnotsAtBucketEdges ==
    (/\ Called("bin_and_average")
     /\ call.strategy = "spline"
     /\ "group_points" \in ret.steps
     /\ call.nbins >= 1)
    => /\ Len(ret.knots) = call.nbins - 1
       /\ ret.knots = InternalEdges

\* The call made, made without add_after: the aggregated curve alone.
Aggregated == OnFreshModule([call EXCEPT !.add_after = None])
\* How many of the first k output pairs are the point p.
CopiesInFront(p, k) ==
    Cardinality({i \in 1..k : /\ ret.xs[i] = XLin(RInt(p[1]))
                              /\ ret.ys[i] = YNum(RInt(p[2]))})

\* C18: with k points in add_after the output is k pairs that are those
\* points, unchanged, followed by the aggregated curve, unchanged and in its
\* order.
C18_AddAfterInFront ==
    (ReturnedFrom("bin_and_average") /\ ~IsNone(call.add_after))
    => LET k == Len(call.add_after)
           curve == Aggregated
       IN  /\ curve.outcome = "returned"
           /\ Len(ret.xs) = k + Len(curve.xs)
           /\ Len(ret.ys) = k + Len(curve.ys)
           /\ SubSeq(ret.xs, k + 1, Len(ret.xs)) = curve.xs
           /\ SubSeq(ret.ys, k + 1, Len(ret.ys)) = curve.ys
           /\ \A j \in 1..k :
                 CopiesInFront(call.add_after[j], k)
                    = Cardinality({i \in 1..k : call.add_after[i] = call.add_after[j]})

\* Two points were added in front of a curve of at least two pairs, with a
\* ypower that changes the aggregated y.
C18_Witness ==
    /\ ReturnedFrom("bin_and_average")
    /\ Len(call.add_after) = 2
    /\ Len(ret.xs) >= 4
    /\ call.ypower = Half
    /\ call.strategy = "y_mean"

\* What a call hands back or raises, and the work it did.
Result(r) ==
    [outcome |-> r.outcome, error |-> r.error, xs |-> r.xs, ys |-> r.ys,
     bin |-> r.bin, bins |-> r.bins, binned_indices |-> r.binned_indices,
     grouped_points |-> r.grouped_points, knots |-> r.knots, steps |-> r.steps]

AsFirstCall == call.op = "bin_and_average" => Result(ret) = Result(OnFreshModule(call))
RECURSIVE Flatten(_)
Flatten(q) == IF Len(q) = 0 THEN <<>> ELSE Head(q) \o Flatten(Tail(q))
QaeInterrupted == qae.pc = "done" /\ qae.interrupted
BaeInterrupted == bae.pc = "done" /\ bae.interrupted

\* C11 as stated: after an interrupt the results of all runs completed so
\* far are handed on, with the number of runs they come from, in TestQAE
\* (whatever the step and the run the interrupt arrives at) and in TestBAE.
C11_PartialResultsKept ==
    /\ (QaeInterrupted /\ Len(qae.completed) > 0)
       => /\ qae.registered
          /\ Flatten(qae.est_errs) = qae.completed
          /\ \A j \in 1..Len(qae.est_errs) : Len(qae.est_errs[j]) = qae.ex_nruns
    /\ (BaeInterrupted /\ Len(bae.rdata) > 0)
       => /\ bae.estdata_made /\ bae.estdata = bae.rdata
          /\ bae.saved => bae.ex_nruns = Len(bae.rdata)

\* C11 as amended: TestQAE hands on the steps completed before the
\* interrupted one, each of nruns runs, nruns being the number reported; the
\* runs of the interrupted step are dropped, and an interrupt during the
\* first step hands on nothing.  TestBAE hands on the runs its Runner
\* completed and, when it saves, their number.
C11_CompletedStepsKept ==
    /\ QaeInterrupted
       => LET done == (qae.i - 1) * qae.nruns
          IN  /\ qae.outcome = "returned"
              /\ Len(qae.completed) >= done
              /\ qae.i = 1 => ~qae.registered /\ ~qae.saved /\ ~qae.plotted
              /\ qae.i > 1
                 => /\ qae.registered
                    /\ Len(qae.est_errs) = qae.i - 1
                    /\ Flatten(qae.est_errs) = SubSeq(qae.completed, 1, done)
                    /\ \A j \in 1..Len(qae.est_errs) :
                          Len(qae.est_errs[j]) = qae.ex_nruns
                    /\ qae.ex_nruns = qae.nruns
                    /\ qae.ex_mmax = qae.ms[qae.i]
    /\ (BaeInterrupted /\ Len(bae.rdata) > 0)
       => /\ bae.estdata_made /\ bae.estdata = bae.rdata
          /\ bae.saved => bae.ex_nruns = Len(bae.rdata)

\* TestQAE was interrupted after a completed step, part-way through the next.
C11_Witness ==
    /\ QaeInterrupted
    /\ qae.i > 1
    /\ Len(qae.completed) > (qae.i - 1) * qae.nruns
    /\ qae.registered

\* C12: when runner.run() returns 0 the caller neither builds the
\* estimation data, nor plots, nor saves.
C12_NoAggregationOnNoData ==
    (bae.pc = "done" /\ bae.run_returned = 0)
    => /\ ~bae.estdata_made
       /\ ~bae.plotted
       /\ ~bae.saved

\* A run that was to be saved was interrupted before its first run ended.
C12_Witness ==
    /\ bae.pc = "done"
    /\ bae.run_returned = 0
    /\ bae.nruns > 0
    /\ bae.interrupted
    /\ bae.save

\* |Nq_from_m(m, nshots) - Nq_target| for the call of TestQAE.
NqDistance(m) ==
    LET d == RSub(Nq_from_m(m, qae.nshots), RInt(qae.Nq_target))
    IN  IF RSign(d) < 0 THEN RSub(RInt(0), d) ELSE d

\* C20: the m that m_from_Nq returns has the number of queries closest to
\* Nq_target: no m' around it is closer.
C20_ClosestNq ==
    (qae.pc # "idle" /\ qae.error = "none" /\ ~qae.interrupted
       /\ qae.Nq_target > qae.nshots)
    => \A m \in (qae.mmax - 2)..(qae.mmax + 2) :
          ~RLess(NqDistance(m), NqDistance(qae.mmax))

\* C21: whenever TestQAE registers data, nqs and sqe_by_step have the same
\* length, entry i holding the errors of the runs made at nqs[i], also after
\* an interrupt at a step past the first.
C21_SeriesAligned ==
    (qae.pc = "done" /\ qae.registered)
    => /\ Len(qae.est_nqs) = Len(qae.est_errs)
       /\ \A j \in 1..Len(qae.est_errs) :
             /\ qae.est_nqs[j] = Nq_from_m(qae.ms[j], qae.nshots)
             /\ Len(qae.est_errs[j]) = qae.nruns

\* C22: TestQAE returns without handing anything on only when no step
\* completed: once a step has made all its runs, its results are registered
\* and, when asked, saved.
C22_CompletedStepRegistered ==
    (qae.pc = "done" /\ qae.nruns >= 1 /\ Len(qae.sqe_by_step) >= 1)
    => /\ qae.registered
       /\ qae.est_errs = qae.sqe_by_step
       /\ qae.save => qae.saved

\* A step of the process that is a call of bin_and_average.
IsCall == pc' # pc
\* The call before this one was not silent and had the same strategy.
LoudBefore == pc = "done" /\ ~call.silent /\ call.strategy = call'.strategy

\* C23 as stated: the banner of a strategy is printed exactly by the first
\* call with that strategy and silent=False; no flag of STRAT_USED goes back
\* to False; a silent call neither prints nor changes STRAT_USED.
C23_BannerOnFirstLoudCall ==
    [][IsCall
       => /\ ret'.printed <=> /\ ~call'.silent
                              /\ call'.strategy \in strats
                              /\ ~LoudBefore
          /\ \A s \in strats : STRAT_USED[s] => STRAT_USED'[s]
          /\ call'.silent => ~ret'.printed /\ STRAT_USED' = STRAT_USED]_vars

\* C23 as amended: the banner of a strategy is printed exactly by a call
\* with that strategy and silent=False that has samples and finds the flag
\* unset; the call sets the flag, so no later call prints it; no flag goes
\* back to False; a silent call neither prints nor changes STRAT_USED.
C23_BannerOncePerFlag ==
    [][IsCall
       => /\ ret'.printed <=> /\ ~call'.silent
                              /\ call'.strategy \in strats
                              /\ Len(call'.xs) > 0
                              /\ ~STRAT_USED[call'.strategy]
          /\ STRAT_USED' = IF ret'.printed
                           THEN [STRAT_USED EXCEPT ![call'.strategy] = TRUE]
                           ELSE STRAT_USED
          /\ (pc = "done" /\ ret.printed /\ call'.strategy = call.strategy)
             => ~ret'.printed
          /\ (LoudBefore /\ call.strategy \in strats /\ Len(call.xs) > 0)
             => ~ret'.printed
          /\ \A s \in strats : STRAT_USED[s] => STRAT_USED'[s]
          /\ call'.silent => ~ret'.printed /\ STRAT_USED' = STRAT_USED]_vars

\* The second call of a process printed the banner, the first one having set
\* no flag.
C23_Witness ==
    /\ pc = "again"
    /\ ret.printed
    /\ Len(call.xs) > 0
    /\ \A s \in strats : STRAT_USED[s] <=> s = call.strategy

\* C24: the points of add_after open the output in the order they are
\* listed in: the j-th pair of the output is the j-th point.
C24_AddAfterInOrder ==
    (ReturnedFrom("bin_and_average") /\ ~IsNone(call.add_after))
    => \A j \in 1..Len(call.add_after) :
          /\ ret.xs[j] = XLin(RInt(call.add_after[j][1]))
          /\ ret.ys[j] = YNum(RInt(call.add_after[j][2]))

\* C25: the search range has lb <= hb and holds the canonical estimate of
\* the most frequent outcome; its ends are the amplitudes of the outcomes
\* next to it, the outcome itself standing in at either end of 0..2^m - 1.
C25_RangeHoldsEstimate ==
    (emu.pc = "ranged" /\ emu.m >= 1)
    => LET amp == amp_from_outcome(emu.o, emu.m)
           below == amp_from_outcome(IF emu.o > 0 THEN emu.o - 1 ELSE emu.o, emu.m)
           above == amp_from_outcome(IF emu.o < IPow(2, emu.m) - 1 THEN emu.o + 1 ELSE emu.o, emu.m)
       IN  /\ emu.lb <= emu.hb
           /\ {emu.lb, emu.hb} = {below, above}
           /\ emu.lb <= amp /\ amp <= emu.hb

====
